---------------------------- MODULE Spec2Model ----------------------------
(***************************************************************************)
(* Model of velox/dwio/parquet/writer/Writer.cpp: the buffering sink       *)
(* (ArrowDataBufferSink), schema validation and field-name reconciliation, *)
(* and the Writer's write / flush / close / abort operations over the      *)
(* staging state held in ArrowContext.                                     *)
(***************************************************************************)
EXTENDS Integers, Sequences, FiniteSets, TLC

VARIABLES
    phase,          \* "new" before Writer::Writer ran, then "Open" or "ConfigError"
    schema_,        \* Writer::schema_, the logical RowType
    arrowContext,   \* TRUE while arrowContext_ is non-null (FALSE after abort)
    writer,         \* arrowContext_->writer is non-null (encoder handle)
    arrowSchema,    \* arrowContext_->schema (NullSchema until the first write)
    stagingRows,    \* arrowContext_->stagingRows
    stagingBytes,   \* arrowContext_->stagingBytes
    stagingChunks,  \* arrowContext_->stagingChunks: columns, each a sequence of fragments
    sink,           \* ArrowDataBufferSink::sink_: "open", "closed" or "null" (reset)
    buffer,         \* ArrowDataBufferSink::buffer_ content
    bytesFlushed,   \* ArrowDataBufferSink::bytesFlushed_
    dest,           \* bytes the destination FileSink has received
    tables,         \* tables handed to FileWriter::WriteTable, in order
    crashed,        \* the process was terminated by a null dereference
    nextBatch,      \* history: id of the next batch passed to write
    rowsWritten,    \* history: sum of rows of the batches write() staged
    failures,       \* history: number of calls that ended in an error
    closes,         \* history: number of close() calls that returned normally
    destAtAbort,    \* history: Len(dest) when abort() first ran, -1 before
    last,           \* history: what the most recent call did
    sinkWritten,    \* history: all bytes passed to ArrowDataBufferSink::Write
    options,        \* WriterOptions: the optional members processConfigs resolves
    session,        \* processConfigs argument: session properties, key -> value
    connectorConfig,\* processConfigs argument: connector properties, key -> value
    configured      \* WriterOptions::processConfigs has run

vars == <<phase, schema_, arrowContext, writer, arrowSchema, stagingRows,
          stagingBytes, stagingChunks, sink, buffer, bytesFlushed, dest,
          tables, crashed, nextBatch, rowsWritten, failures, closes,
          destAtAbort, last, sinkWritten, options, session, connectorConfig,
          configured>>

\* The variables the Writer's own operations never touch.
sinkHistoryVars == <<sinkWritten>>
configVars == <<options, session, connectorConfig, configured>>

-----------------------------------------------------------------------------
\* Bounds of the model.
MaxNodes == 5          \* nodes of a logical type tree (schema spec)
MaxWrites == 2         \* write() calls per behaviour
MaxBatchRows == 2      \* rows of one incoming batch
MaxBatchBytes == 1     \* estimateFlatSize of one incoming batch
MaxFailures == 1       \* calls ending in an error per behaviour
MaxSinkBytes == 3      \* bytes written to a sink used on its own
RowsInRowGroup == 2    \* flush policy row target
BytesInRowGroup == 1   \* flush policy byte target

-----------------------------------------------------------------------------
\* Logical (Velox) types: a tree over scalar / row / array / map.
Scalar == [kind |-> "scalar", names |-> <<>>, children |-> <<>>]
Row(ns, cs) == [kind |-> "row", names |-> ns, children |-> cs]
Array(e) == [kind |-> "array", names |-> <<>>, children |-> <<e>>]
Map(k, v) == [kind |-> "map", names |-> <<>>, children |-> <<k, v>>]

\* Field names a logical struct may carry; "" is the empty name.
FieldNames == {"a", "b", ""}

RECURSIVE TypesOfSize(_)
TypesOfSize(n) ==
    IF n = 1 THEN {Scalar}
    ELSE {Array(e) : e \in TypesOfSize(n - 1)}
         \cup {Row(<<nm>>, <<c>>) : nm \in FieldNames, c \in TypesOfSize(n - 1)}
         \cup UNION {{Row(<<n1, n2>>, <<c1, c2>>) :
                          n1 \in FieldNames, n2 \in FieldNames,
                          c1 \in TypesOfSize(k), c2 \in TypesOfSize(n - 1 - k)} :
                     k \in 1..(n - 2)}
         \cup UNION {{Map(c1, c2) :
                          c1 \in TypesOfSize(k), c2 \in TypesOfSize(n - 1 - k)} :
                     k \in 1..(n - 2)}

\* Every RowType of at most MaxNodes nodes.
RowTypes == {t \in UNION {TypesOfSize(n) : n \in 2..MaxNodes} : t.kind = "row"}

\* The schemas the writer state machine is run with.
WriterSchemas ==
    { Row(<<"a", "b">>, <<Scalar, Array(Row(<<"a">>, <<Scalar>>))>>),
      Row(<<"a", "a">>, <<Scalar, Scalar>>) }

-----------------------------------------------------------------------------
\* Arrow schema: fields carry a name and a type; container types carry fields.
Field(n, t) == [name |-> n, type |-> t]
ArrowLeaf(k) == [kind |-> k, fields |-> <<>>]
ArrowStruct(fs) == [kind |-> "struct", fields |-> fs]
ArrowList(f) == [kind |-> "list", fields |-> <<f>>]
\* ::arrow::map(keyType, itemType) builds its own key and item fields.
ArrowMap(kt, vt) ==
    [kind |-> "map", fields |-> <<Field("key", kt), Field("value", vt)>>]
NullSchema == [kind |-> "null", fields |-> <<>>]

WithName(f, n) == [f EXCEPT !.name = n]
WithType(f, t) == [f EXCEPT !.type = t]

\* How the conversion boundary names the fields it produces.
Schemes == {"kept", "positional", "generic"}
PositionalNames == <<"f0", "f1">>
ConvertedName(scheme, name, i) ==
    CASE scheme = "kept" -> name
      [] scheme = "positional" -> PositionalNames[i]
      [] OTHER -> "col"
ConvertedLeaf(scheme) == IF scheme = "generic" THEN "dictionary" ELSE "int32"

\* exportToArrow + ImportSchema: the converted schema has the logical shape.
RECURSIVE exportToArrow(_, _)
exportToArrow(t, scheme) ==
    CASE t.kind = "row" ->
           ArrowStruct([i \in DOMAIN t.children |->
               Field(ConvertedName(scheme, t.names[i], i),
                     exportToArrow(t.children[i], scheme))])
      [] t.kind = "array" ->
           ArrowList(Field("item", exportToArrow(t.children[1], scheme)))
      [] t.kind = "map" ->
           [kind |-> "map",
            fields |-> <<Field("k", exportToArrow(t.children[1], scheme)),
                         Field("v", exportToArrow(t.children[2], scheme))>>]
      [] OTHER -> ArrowLeaf(ConvertedLeaf(scheme))

\* validateSchemaRecursive: TRUE iff no VELOX_USER_CHECK fires.
RECURSIVE validateSchemaRecursive(_)
validateSchemaRecursive(schema) ==
    /\ \A i \in DOMAIN schema.names : schema.names[i] # ""
    /\ \A i \in DOMAIN schema.names : \A j \in DOMAIN schema.names :
           i < j => schema.names[i] # schema.names[j]
    /\ \A i \in DOMAIN schema.children :
           schema.children[i].kind = "row" =>
               validateSchemaRecursive(schema.children[i])

\* updateFieldNameRecursive(field, type, name); name defaults to "".
RECURSIVE updateFieldNameRecursive(_, _, _)
updateFieldNameRecursive(field, type, name) ==
    CASE type.kind = "row" ->
           LET newField == WithName(field, name)
               structType == newField.type
               newFields == [i \in DOMAIN type.children |->
                   updateFieldNameRecursive(
                       structType.fields[i], type.children[i], type.names[i])]
           IN  WithType(newField, ArrowStruct(newFields))
      [] type.kind = "array" ->
           LET newField == WithName(field, name)
               elementField == newField.type.fields[1]
           IN  WithType(newField, ArrowList(
                   updateFieldNameRecursive(elementField, type.children[1], "")))
      [] type.kind = "map" ->
           LET newField == WithName(field, name)
               newKeyField == updateFieldNameRecursive(
                   newField.type.fields[1], type.children[1], "")
               newValueField == updateFieldNameRecursive(
                   newField.type.fields[2], type.children[2], "")
           IN  WithType(newField, ArrowMap(newKeyField.type, newValueField.type))
      [] OTHER -> IF name # "" THEN WithName(field, name) ELSE field

\* Writer::write, lines 445-454: the schema of the imported record batch.
ReconciledSchema(logical, converted) ==
    ArrowStruct([i \in DOMAIN logical.children |->
        updateFieldNameRecursive(
            converted.fields[i], logical.children[i], logical.names[i])])


-----------------------------------------------------------------------------
\* The bytes the encoder (FileWriter) puts on its output stream, as tokens.
MagicBytes == <<"PAR1">>        \* FileWriter::Open
RowGroupBytes == <<"RG">>       \* FileWriter::WriteTable, complete
PartialBytes == <<"RG-part">>   \* FileWriter::WriteTable, failed part-way
FooterBytes == <<"FOOT">>       \* FileWriter::Close

\* Outcomes of the encoder calls of one flush.
EncoderOutcomes == {"ok", "openFail", "writeFail", "writePartial"}

NumColumns == Len(schema_.names)

\* The Writer's mutable state as one record, threaded through the helpers.
WriterState ==
    [writer |-> writer, chunks |-> stagingChunks, rows |-> stagingRows,
     bytes |-> stagingBytes, sink |-> sink, buffer |-> buffer,
     flushed |-> bytesFlushed, dest |-> dest, tables |-> tables,
     steps |-> <<>>, err |-> "none"]

Step(s, name) == [s EXCEPT !.steps = Append(@, name)]

\* Faulty variant of SinkWrite: the new bytes go in front of the buffer.
SinkWritePrepending(s, data) == [s EXCEPT !.buffer = data \o @]

\* ArrowDataBufferSink::Write: appends to buffer_, no I/O.
SinkWrite(s, data) == [s EXCEPT !.buffer = @ \o data]

\* buffer_ after sink_->write(std::move(buffer_)): reset to empty.
MovedFrom(buf) == <<>>

\* Faulty variant of SinkFlush: the buffer is delivered but not emptied.
SinkFlushKeepBuffer(s) ==
    LET s1 == [s EXCEPT !.flushed = @ + Len(s.buffer)]
    IN  IF s.sink = "open"
        THEN [s1 EXCEPT !.dest = @ \o s.buffer, !.steps = Append(@, "SinkFlush")]
        ELSE [s1 EXCEPT !.err = "error"]

\* ArrowDataBufferSink::Flush: bytesFlushed_ += size; sink_->write(buffer_).
\* A destination that was closed rejects the write.
SinkFlush(s) ==
    LET s1 == [s EXCEPT !.flushed = @ + Len(s.buffer)]
    IN  IF s.sink = "open"
        THEN Step([s1 EXCEPT !.dest = @ \o s.buffer,
                             !.buffer = MovedFrom(s.buffer)], "SinkFlush")
        ELSE [s1 EXCEPT !.err = "error"]

\* ArrowDataBufferSink::Tell: bytesFlushed_ + buffer_.size().
Tell(s) == s.flushed + Len(s.buffer)

\* ArrowDataBufferSink::Close: Flush, then sink_->close().
SinkClose(s) ==
    LET s1 == SinkFlush(s)
    IN  IF s1.err # "none" THEN s1
        ELSE Step([s1 EXCEPT !.sink = "closed"], "SinkClose")

\* Faulty variant of SinkAbort: an abort that flushes the buffer before discarding.
SinkAbortFlushing(s) ==
    LET s1 == IF s.sink = "open" THEN SinkFlush(s) ELSE s
    IN  [s1 EXCEPT !.sink = "null", !.buffer = <<>>]

\* ArrowDataBufferSink::abort: sink_.reset(); buffer_.clear().
SinkAbort(s) == [s EXCEPT !.sink = "null", !.buffer = <<>>]

\* DefaultFlushPolicy::shouldFlush on getStripeProgress(rows, bytes).
shouldFlush(rows, bytes) == rows >= RowsInRowGroup \/ bytes >= BytesInRowGroup

\* Faulty variant of Materialize: the table is cut at the row-group row target.
MaterializeCapped(s) ==
    [cols |-> [c \in 1..NumColumns |-> s.chunks[c]],
     rows |-> IF s.rows > RowsInRowGroup THEN RowsInRowGroup ELSE s.rows]

\* Writer::flush, lines 385-398: the table built from the staged fragments.
Materialize(s) ==
    [cols |-> [c \in 1..NumColumns |-> s.chunks[c]], rows |-> s.rows]

\* Faulty variant of FlushNeeded: flush works also when nothing is staged.
FlushNeededAlways(s) == TRUE

\* Writer::flush, line 368: if (arrowContext_->stagingRows > 0).
FlushNeeded(s) == s.rows > 0

\* Writer::flush, line 400: the chunk size passed to WriteTable.
RowGroupLength(s) == RowsInRowGroup

\* Faulty variant of ClearStaging: the row counter is not reset.
ClearStagingKeepRows(s) ==
    [s EXCEPT !.chunks = [c \in DOMAIN @ |-> <<>>], !.bytes = 0]

\* Writer::flush, lines 402-406: clear every column, zero the counters.
ClearStaging(s) ==
    [s EXCEPT !.chunks = [c \in DOMAIN @ |-> <<>>], !.rows = 0, !.bytes = 0]

\* Writer::flush. enc is what the encoder does if it is called.
flush(s, enc) ==
    IF ~FlushNeeded(s) THEN s
    ELSE IF ~s.writer /\ enc = "openFail" THEN [s EXCEPT !.err = "error"]
    ELSE
      LET s1 == IF s.writer THEN s
                ELSE Step(SinkWrite([s EXCEPT !.writer = TRUE], MagicBytes),
                          "EncoderOpen")
      IN  IF Len(s1.chunks) < NumColumns
          THEN \* stagingChunks.at(colIdx) throws; earlier columns were moved out
               [s1 EXCEPT !.chunks = [c \in DOMAIN @ |-> <<>>], !.err = "error"]
          ELSE
            LET table == Materialize(s1)
                \* std::move of every column's vector leaves it empty
                s2 == [s1 EXCEPT !.chunks = [c \in DOMAIN @ |-> <<>>]]
                handed(ok) == [table |-> table, chunkSize |-> RowGroupLength(s1),
                               ok |-> ok]
            IN  IF enc \in {"writeFail", "writePartial"}
                THEN Step([SinkWrite(s2, IF enc = "writePartial"
                                         THEN PartialBytes ELSE <<>>)
                             EXCEPT !.tables = Append(@, handed(FALSE)),
                                    !.err = "error"], "WriteTable")
                ELSE
                  LET s3 == Step([SinkWrite(s2, RowGroupBytes)
                                    EXCEPT !.tables = Append(@, handed(TRUE))],
                                 "WriteTable")
                      s4 == SinkFlush(s3)
                  IN  IF s4.err # "none" THEN s4
                      ELSE ClearStaging(s4)

\* recordBatch->column(colIdx) of batch id: <<batch id, rows, column>>.
Fragment(id, rows, colIdx) == <<id, rows, colIdx>>

\* Faulty variant of Stage: the fragment is appended to the first column only.
StageFirstColumn(s, id, rows, bytes) ==
    [s EXCEPT !.chunks = [c \in DOMAIN @ |->
                             IF c = 1 THEN Append(@[c], Fragment(id, rows, c))
                             ELSE @[c]],
              !.rows = @ + rows, !.bytes = @ + bytes]

\* Faulty variant of Stage: the new fragment is put in front of the column.
StagePrepending(s, id, rows, bytes) ==
    [s EXCEPT !.chunks = [c \in DOMAIN @ |-> <<Fragment(id, rows, c)>> \o @[c]],
              !.rows = @ + rows, !.bytes = @ + bytes]

\* Writer::write, lines 471-476: stage one fragment per column, then count.
Stage(s, id, rows, bytes) ==
    IF Len(s.chunks) < NumColumns
    THEN \* stagingChunks.at(colIdx) throws std::out_of_range
         [s EXCEPT !.chunks = [c \in DOMAIN @ |->
                                  Append(@[c], Fragment(id, rows, c))],
                   !.err = "error"]
    ELSE [s EXCEPT !.chunks = [c \in DOMAIN @ |->
                                  Append(@[c], Fragment(id, rows, c))],
                   !.rows = @ + rows, !.bytes = @ + bytes]

\* Writer::close.
close(s, enc) ==
    LET s1 == flush(s, enc)
    IN  IF s1.err # "none" THEN s1
        ELSE
          LET s2 == IF s1.writer
                    THEN Step(SinkWrite([s1 EXCEPT !.writer = FALSE], FooterBytes),
                              "EncoderClose")
                    ELSE s1
              s3 == SinkClose(s2)
          IN  IF s3.err # "none" THEN s3
              ELSE [s3 EXCEPT !.chunks = <<>>]

\* What a call records about itself and the state it started from.
CallRecord(op, outcome, steps, should, rows, bytes, scheme) ==
    [op |-> op, outcome |-> outcome, steps |-> steps, should |-> should,
     rows |-> rows, bytes |-> bytes, scheme |-> scheme,
     preRows |-> stagingRows, preBytes |-> stagingBytes,
     preBuffer |-> Len(buffer), preSink |-> sink, preDest |-> Len(dest),
     preTables |-> Len(tables), preWriter |-> writer, preCloses |-> closes,
     typeOk |-> TRUE]

\* The signals a null dereference of arrowContext_ ends the process with.
CrashSignals == {"SIGSEGV", "SIGABRT"}

\* Install a helper's result in the variables.
Install(s) ==
    /\ writer' = s.writer
    /\ stagingChunks' = s.chunks
    /\ stagingRows' = s.rows
    /\ stagingBytes' = s.bytes
    /\ sink' = s.sink
    /\ buffer' = s.buffer
    /\ bytesFlushed' = s.flushed
    /\ dest' = s.dest
    /\ tables' = s.tables
    /\ failures' = failures + (IF s.err = "none" THEN 0 ELSE 1)
    /\ failures' <= MaxFailures

\* A write, flush or close on an aborted writer dereferences the null
\* arrowContext_: the process dies before anything else happens.
NullDereference(op, rows, bytes) ==
    /\ ~arrowContext
    /\ \E sig \in CrashSignals :
           last' = CallRecord(op, sig, <<>>, FALSE, rows, bytes, "none")
    /\ crashed' = TRUE
    /\ UNCHANGED <<phase, schema_, arrowContext, writer, arrowSchema,
                   stagingRows, stagingBytes, stagingChunks, sink, buffer,
                   bytesFlushed, dest, tables, rowsWritten, failures, closes,
                   destAtAbort>>

\* Type::equivalent as the contract of write(batch) states it: the same field
\* order, field names and nested types.
equivalent(a, b) == a = b

\* Faulty variant of TypeCheckPasses: the batch type is not looked at.
TypeCheckSkipped(batchType) == TRUE

\* Writer::write, lines 426-428: data->type()->equivalent(*schema_).
TypeCheckPasses(batchType) == equivalent(batchType, schema_)

\* The types a caller may hand to write(): the writer's schema, and the schema
\* with its first field renamed, its fields reversed, its last field's type
\* replaced.
BatchTypes ==
    LET n == Len(schema_.names)
    IN  { schema_,
          Row(<<"z">> \o Tail(schema_.names), schema_.children),
          Row([i \in 1..n |-> schema_.names[n + 1 - i]],
              [i \in 1..n |-> schema_.children[n + 1 - i]]),
          Row(schema_.names,
              [schema_.children EXCEPT ![n] = IF @ = Scalar THEN Array(Scalar)
                                              ELSE Scalar]) }

-----------------------------------------------------------------------------
\* Writer::Writer: validateSchemaRecursive(schema_) or a configuration error.
Construct ==
    /\ phase = "new"
    /\ phase' = IF validateSchemaRecursive(schema_) THEN "Open" ELSE "ConfigError"
    /\ last' = CallRecord("construct", IF validateSchemaRecursive(schema_)
                                       THEN "ok" ELSE "error",
                          <<>>, FALSE, 0, 0, "none")
    /\ UNCHANGED <<schema_, arrowContext, writer, arrowSchema, stagingRows,
                   stagingBytes, stagingChunks, sink, buffer, bytesFlushed,
                   dest, tables, crashed, nextBatch, rowsWritten, failures,
                   closes, destAtAbort>>
    /\ UNCHANGED <<sinkHistoryVars, configVars>>

\* Writer::write with a batch of type batchType.
Write(batchType, rows, bytes, scheme, enc) ==
    /\ phase = "Open" /\ ~crashed
    /\ UNCHANGED <<sinkHistoryVars, configVars>>
    /\ \/ /\ ~TypeCheckPasses(batchType)
          /\ last' = [CallRecord("write", "error", <<>>, FALSE, rows, bytes, scheme)
                         EXCEPT !.typeOk = equivalent(batchType, schema_)]
          /\ failures' = failures + 1
          /\ failures' <= MaxFailures
          /\ UNCHANGED <<phase, schema_, arrowContext, writer, arrowSchema,
                         stagingRows, stagingBytes, stagingChunks, sink, buffer,
                         bytesFlushed, dest, tables, crashed, rowsWritten,
                         closes, destAtAbort, nextBatch>>
       \/ /\ TypeCheckPasses(batchType)
          /\ nextBatch <= MaxWrites
          /\ nextBatch' = nextBatch + 1
          /\ NullDereference("write", rows, bytes)
       \/ /\ TypeCheckPasses(batchType)
          /\ nextBatch <= MaxWrites
          /\ nextBatch' = nextBatch + 1
          /\ arrowContext
          /\ LET first == arrowSchema = NullSchema
                 s0 == IF first
                       THEN [WriterState EXCEPT
                               !.chunks = @ \o [c \in 1..NumColumns |-> <<>>]]
                       ELSE WriterState
                 should == shouldFlush(stagingRows, stagingBytes)
                 s1 == IF should THEN flush(s0, enc) ELSE s0
                 s2 == IF s1.err # "none" THEN s1
                       ELSE Stage(s1, nextBatch, rows, bytes)
             IN  /\ arrowSchema' = IF first
                                   THEN ReconciledSchema(
                                            schema_, exportToArrow(schema_, scheme))
                                   ELSE arrowSchema
                 /\ Install(s2)
                 /\ rowsWritten' = rowsWritten + (IF s2.err = "none" THEN rows ELSE 0)
                 /\ last' = [CallRecord("write",
                                        IF s2.err = "none" THEN "ok" ELSE "error",
                                        s2.steps, should, rows, bytes, scheme)
                                EXCEPT !.typeOk = equivalent(batchType, schema_)]
          /\ UNCHANGED <<phase, schema_, arrowContext, crashed, closes, destAtAbort>>

\* Writer::flush called by the user.
Flush(enc) ==
    /\ phase = "Open" /\ ~crashed
    /\ \/ NullDereference("flush", 0, 0)
       \/ /\ arrowContext
          /\ LET s1 == flush(WriterState, enc)
             IN  /\ Install(s1)
                 /\ last' = CallRecord("flush",
                                       IF s1.err = "none" THEN "ok" ELSE "error",
                                       s1.steps, FALSE, 0, 0, "none")
          /\ UNCHANGED <<phase, schema_, arrowContext, arrowSchema, crashed,
                         rowsWritten, closes, destAtAbort>>
    /\ UNCHANGED <<nextBatch, sinkHistoryVars, configVars>>

\* Writer::newRowGroup: arrowContext_->writer->NewRowGroup(numRows), with no
\* check of either pointer. On a null pointer the process dies.
NewRowGroup(numRows) ==
    /\ phase = "Open" /\ ~crashed
    /\ IF arrowContext /\ writer
       THEN /\ last' = CallRecord("newRowGroup", "ok", <<"NewRowGroup">>, FALSE,
                                  0, 0, "none")
            /\ UNCHANGED crashed
       ELSE /\ \E sig \in CrashSignals :
                   last' = CallRecord("newRowGroup", sig, <<>>, FALSE,
                                      0, 0, "none")
            /\ crashed' = TRUE
    /\ UNCHANGED <<phase, schema_, arrowContext, writer, arrowSchema,
                   stagingRows, stagingBytes, stagingChunks, sink, buffer,
                   bytesFlushed, dest, tables, nextBatch, rowsWritten, failures,
                   closes, destAtAbort, sinkHistoryVars, configVars>>

\* Writer::close.
Close(enc) ==
    /\ phase = "Open" /\ ~crashed
    /\ \/ NullDereference("close", 0, 0)
       \/ /\ arrowContext
          /\ LET s1 == close(WriterState, enc)
             IN  /\ Install(s1)
                 /\ closes' = closes + (IF s1.err = "none" THEN 1 ELSE 0)
                 /\ last' = CallRecord("close",
                                       IF s1.err = "none" THEN "ok" ELSE "error",
                                       s1.steps, FALSE, 0, 0, "none")
          /\ UNCHANGED <<phase, schema_, arrowContext, arrowSchema, crashed,
                         rowsWritten, destAtAbort>>
    /\ UNCHANGED <<nextBatch, sinkHistoryVars, configVars>>

\* Writer::abort: stream_->abort(); arrowContext_.reset().
Abort ==
    /\ phase = "Open" /\ ~crashed
    /\ LET s1 == SinkAbort(WriterState)
       IN  /\ sink' = s1.sink
           /\ buffer' = s1.buffer
           /\ bytesFlushed' = s1.flushed
           /\ dest' = s1.dest
           /\ tables' = s1.tables
           /\ last' = CallRecord("abort", "ok", s1.steps, FALSE, 0, 0, "none")
    /\ arrowContext' = FALSE
    /\ writer' = FALSE
    /\ arrowSchema' = NullSchema
    /\ stagingChunks' = <<>>
    /\ stagingRows' = 0
    /\ stagingBytes' = 0
    /\ destAtAbort' = IF destAtAbort = -1 THEN Len(dest) ELSE destAtAbort
    /\ UNCHANGED <<phase, schema_, crashed, nextBatch, rowsWritten,
                   failures, closes, sinkHistoryVars, configVars>>

-----------------------------------------------------------------------------
\* A sink and a writer's fields before the constructor has run.
InitFields ==
    /\ phase = "new"
    /\ arrowContext = TRUE
    /\ writer = FALSE
    /\ arrowSchema = NullSchema
    /\ stagingRows = 0
    /\ stagingBytes = 0
    /\ stagingChunks = <<>>
    /\ sink = "open"
    /\ buffer = <<>>
    /\ bytesFlushed = 0
    /\ dest = <<>>
    /\ tables = <<>>
    /\ crashed = FALSE
    /\ nextBatch = 1
    /\ rowsWritten = 0
    /\ failures = 0
    /\ closes = 0
    /\ destAtAbort = -1
    /\ last = [op |-> "none", outcome |-> "ok", steps |-> <<>>, should |-> FALSE,
               rows |-> 0, bytes |-> 0, scheme |-> "none", preRows |-> 0,
               preBytes |-> 0, preBuffer |-> 0, preSink |-> "open",
               preDest |-> 0, preTables |-> 0, preWriter |-> FALSE,
               preCloses |-> 0, typeOk |-> TRUE]
    /\ sinkWritten = <<>>

\* The writer and its sink; option resolution is not part of their behaviour.
InitWriter ==
    /\ InitFields
    /\ options = <<>>
    /\ session = <<>>
    /\ connectorConfig = <<>>
    /\ configured = FALSE

Init == schema_ \in WriterSchemas /\ InitWriter

Next ==
    \/ Construct
    \/ \E rows \in 0..MaxBatchRows, bytes \in 0..MaxBatchBytes,
          enc \in EncoderOutcomes : Write(schema_, rows, bytes, "positional", enc)
    \/ \E batchType \in BatchTypes \ {schema_} :
          Write(batchType, MaxBatchRows, MaxBatchBytes, "positional", "ok")
    \/ \E enc \in EncoderOutcomes : Flush(enc)
    \/ \E numRows \in 0..MaxBatchRows : NewRowGroup(numRows)
    \/ \E enc \in EncoderOutcomes : Close(enc)
    \/ Abort

Spec == Init /\ [][Next]_vars

\* Every RowType of the bound, constructed and then written to once.
InitSchema == schema_ \in RowTypes /\ InitWriter

NextSchema ==
    \/ Construct
    \/ \E scheme \in Schemes : nextBatch = 1 /\ Write(schema_, 1, 1, scheme, "ok")

SpecSchema == InitSchema /\ [][NextSchema]_vars

-----------------------------------------------------------------------------
\* The ArrowDataBufferSink used on its own, as the encoder uses it.

\* The byte strings one Write call may carry.
SinkData == {<<>>, <<"x">>, <<"y">>, <<"x", "y">>}

\* The sink's fields after a call, and the call's record.
InstallSink(s, op, rows) ==
    /\ sink' = s.sink
    /\ buffer' = s.buffer
    /\ bytesFlushed' = s.flushed
    /\ dest' = s.dest
    /\ failures' = failures + (IF s.err = "none" THEN 0 ELSE 1)
    /\ failures' <= MaxFailures
    /\ last' = CallRecord(op, IF s.err = "none" THEN "ok" ELSE "error",
                          s.steps, FALSE, rows, 0, "none")
    /\ UNCHANGED <<phase, schema_, arrowContext, writer, arrowSchema,
                   stagingRows, stagingBytes, stagingChunks, tables, crashed,
                   nextBatch, rowsWritten, closes, destAtAbort, configVars>>

\* ArrowDataBufferSink::Write(data).
SinkWriteCall(data) ==
    /\ Len(sinkWritten) + Len(data) <= MaxSinkBytes
    /\ sinkWritten' = sinkWritten \o data
    /\ InstallSink(SinkWrite(WriterState, data), "sinkWrite", Len(data))

\* ArrowDataBufferSink::Flush().
SinkFlushCall ==
    /\ InstallSink(SinkFlush(WriterState), "sinkFlush", 0)
    /\ UNCHANGED sinkWritten

\* ArrowDataBufferSink::Close().
SinkCloseCall ==
    /\ InstallSink(SinkClose(WriterState), "sinkClose", 0)
    /\ UNCHANGED sinkWritten

InitSink == schema_ = Row(<<"a">>, <<Scalar>>) /\ InitWriter

NextSink ==
    \/ \E data \in SinkData : SinkWriteCall(data)
    \/ SinkFlushCall
    \/ SinkCloseCall

SpecSink == InitSink /\ [][NextSink]_vars

-----------------------------------------------------------------------------
\* WriterOptions::processConfigs. Every value is kept as the string a property
\* map holds or a getter returns.

Unset == "nullopt"      \* std::nullopt, or a key a map does not hold
Fail == "fail"          \* the getter throws

\* The optional members processConfigs assigns, in the order it assigns them.
OptionOrder ==
    <<"parquetWriteTimestampUnit", "parquetWriteTimestampTimeZone",
      "enableDictionary", "dictionaryPageSizeLimit", "useParquetDataPageV2",
      "dataPageSize", "batchSize", "createdBy">>
AssignedOptions == {OptionOrder[i] : i \in DOMAIN OptionOrder}
OptionNames == AssignedOptions \cup {"sessionTimezoneName"}

\* The options looked up in the property maps.
LayeredOptions == AssignedOptions \ {"parquetWriteTimestampTimeZone"}

\* The documented key of an option in the session properties ...
SessionKeyOf(o) ==
    CASE o = "parquetWriteTimestampUnit" -> "kParquetSessionWriteTimestampUnit"
      [] o = "enableDictionary" -> "kParquetSessionEnableDictionary"
      [] o = "dictionaryPageSizeLimit" -> "kParquetSessionDictionaryPageSizeLimit"
      [] o = "useParquetDataPageV2" -> "kParquetSessionDataPageVersion"
      [] o = "dataPageSize" -> "kParquetSessionWritePageSize"
      [] o = "batchSize" -> "kParquetSessionWriteBatchSize"
      [] o = "createdBy" -> "kParquetSessionCreatedBy"

\* ... and in the connector properties.
ConnectorKeyOf(o) ==
    CASE o = "parquetWriteTimestampUnit" -> "kParquetHiveConnectorWriteTimestampUnit"
      [] o = "enableDictionary" -> "kParquetHiveConnectorEnableDictionary"
      [] o = "dictionaryPageSizeLimit" -> "kParquetHiveConnectorDictionaryPageSizeLimit"
      [] o = "useParquetDataPageV2" -> "kParquetHiveConnectorDataPageVersion"
      [] o = "dataPageSize" -> "kParquetHiveConnectorWritePageSize"
      [] o = "batchSize" -> "kParquetHiveConnectorWriteBatchSize"
      [] o = "createdBy" -> "kParquetHiveConnectorCreatedBy"

ConfigKeys == {SessionKeyOf(o) : o \in LayeredOptions}
                  \cup {ConnectorKeyOf(o) : o \in LayeredOptions}

\* The option a key is documented for.
OptionOfKey(k) ==
    CHOOSE o \in LayeredOptions : k \in {SessionKeyOf(o), ConnectorKeyOf(o)}

\* The strings a property map may hold for an option, malformed ones included.
RawValues(o) ==
    CASE o = "parquetWriteTimestampUnit" -> {"3", "6", "9", "7"}
      [] o = "enableDictionary" -> {"true", "false", "maybe"}
      [] o = "dictionaryPageSizeLimit" -> {"1KB", "2B"}
      [] o = "useParquetDataPageV2" -> {"V1", "V2", "V3"}
      [] o = "dataPageSize" -> {"1KB", "2B"}
      [] o = "batchSize" -> {"1", "2", "many"}
      [] o = "createdBy" -> {"velox", "presto"}

\* The value an option is given explicitly on the WriterOptions object.
ExplicitValue(o) ==
    CASE o = "parquetWriteTimestampUnit" -> "9"
      [] o = "parquetWriteTimestampTimeZone" -> "UTC"
      [] o = "sessionTimezoneName" -> "PST"
      [] o = "enableDictionary" -> "FALSE"
      [] o = "dictionaryPageSizeLimit" -> "4096"
      [] o = "useParquetDataPageV2" -> "TRUE"
      [] o = "dataPageSize" -> "4096"
      [] o = "batchSize" -> "512"
      [] o = "createdBy" -> "explicit"

\* config.get<T>(key): the held string converted to T, Fail if it cannot be.
ConfigGet(config, key) == config[key]

\* getTimestampUnit: 3, 6 or 9, anything else is refused.
getTimestampUnit(config, key) ==
    LET unit == ConfigGet(config, key)
    IN  IF unit = Unset THEN Unset
        ELSE IF unit \in {"3", "6", "9"} THEN unit ELSE Fail

\* isParquetEnableDictionary: config.get<bool>, a ConversionError is refused.
isParquetEnableDictionary(config, key) ==
    LET raw == ConfigGet(config, key)
    IN  CASE raw = Unset -> Unset
          [] raw = "true" -> "TRUE"
          [] raw = "false" -> "FALSE"
          [] OTHER -> Fail

\* getParquetDataPageVersion: "V1" is false, "V2" is true, anything else fails.
getParquetDataPageVersion(config, key) ==
    LET version == ConfigGet(config, key)
    IN  CASE version = Unset -> Unset
          [] version = "V1" -> "FALSE"
          [] version = "V2" -> "TRUE"
          [] OTHER -> Fail

\* config::toCapacity(value, CapacityUnit::BYTE).
toCapacity(raw) ==
    CASE raw = "1KB" -> "1024"
      [] raw = "2B" -> "2"
      [] OTHER -> Fail

\* getParquetPageSize.
getParquetPageSize(config, key) ==
    LET pageSize == ConfigGet(config, key)
    IN  IF pageSize = Unset THEN Unset ELSE toCapacity(pageSize)

\* getParquetBatchSize: config.get<int64_t>, a ConversionError is refused.
getParquetBatchSize(config, key) ==
    LET raw == ConfigGet(config, key)
    IN  CASE raw = Unset -> Unset
          [] raw \in {"1", "2"} -> raw
          [] OTHER -> Fail

\* getParquetCreatedBy.
getParquetCreatedBy(config, key) == ConfigGet(config, key)

\* The getter processConfigs uses for an option.
Getter(o, config, key) ==
    CASE o = "parquetWriteTimestampUnit" -> getTimestampUnit(config, key)
      [] o = "enableDictionary" -> isParquetEnableDictionary(config, key)
      [] o = "dictionaryPageSizeLimit" -> getParquetPageSize(config, key)
      [] o = "useParquetDataPageV2" -> getParquetDataPageVersion(config, key)
      [] o = "dataPageSize" -> getParquetPageSize(config, key)
      [] o = "batchSize" -> getParquetBatchSize(config, key)
      [] o = "createdBy" -> getParquetCreatedBy(config, key)

\* session.has_value() ? session : connectorConfig, each under the given key.
SessionThenConnector(o, sessionKey, connectorKey) ==
    LET fromSession == Getter(o, session, sessionKey)
    IN  IF fromSession # Unset THEN fromSession
        ELSE Getter(o, connectorConfig, connectorKey)

\* The right-hand side of each assignment of processConfigs.
Resolved(o, opts) ==
    CASE o = "parquetWriteTimestampUnit" ->
             SessionThenConnector(o, "kParquetSessionWriteTimestampUnit",
                                     "kParquetSessionWriteTimestampUnit")
      [] o = "parquetWriteTimestampTimeZone" -> opts["sessionTimezoneName"]
      [] o = "enableDictionary" ->
             SessionThenConnector(o, "kParquetSessionEnableDictionary",
                                     "kParquetHiveConnectorEnableDictionary")
      [] o = "dictionaryPageSizeLimit" ->
             SessionThenConnector(o, "kParquetSessionDictionaryPageSizeLimit",
                                     "kParquetHiveConnectorDictionaryPageSizeLimit")
      [] o = "useParquetDataPageV2" ->
             SessionThenConnector(o, "kParquetSessionDataPageVersion",
                                     "kParquetHiveConnectorDataPageVersion")
      [] o = "dataPageSize" ->
             SessionThenConnector(o, "kParquetSessionWritePageSize",
                                     "kParquetHiveConnectorWritePageSize")
      [] o = "batchSize" ->
             SessionThenConnector(o, "kParquetSessionWriteBatchSize",
                                     "kParquetHiveConnectorWriteBatchSize")
      [] o = "createdBy" ->
             getParquetCreatedBy(connectorConfig, "kParquetHiveConnectorCreatedBy")

\* processConfigs from its i-th assignment on: an option is assigned only if
\* it is not set; a getter that throws ends the call with the options assigned
\* so far.
RECURSIVE processFrom(_, _)
processFrom(i, opts) ==
    IF i > Len(OptionOrder) THEN [opts |-> opts, err |-> "none"]
    ELSE LET o == OptionOrder[i]
             v == IF opts[o] # Unset THEN opts[o] ELSE Resolved(o, opts)
         IN  IF v = Fail THEN [opts |-> opts, err |-> "error"]
             ELSE processFrom(i + 1, [opts EXCEPT ![o] = v])

\* WriterOptions::processConfigs(connectorConfig, session).
ProcessConfigs ==
    /\ ~configured
    /\ configured' = TRUE
    /\ LET r == processFrom(1, options)
       IN  /\ options' = r.opts
           /\ last' = CallRecord("processConfigs",
                                 IF r.err = "none" THEN "ok" ELSE "error",
                                 <<>>, FALSE, 0, 0, "none")
    /\ UNCHANGED <<phase, schema_, arrowContext, writer, arrowSchema, stagingRows,
                   stagingBytes, stagingChunks, sink, buffer, bytesFlushed,
                   dest, tables, crashed, nextBatch, rowsWritten, failures,
                   closes, destAtAbort, sinkWritten, session, connectorConfig>>

\* Property maps: empty, holding one key, or holding every key.
EmptyConfig == [k \in ConfigKeys |-> Unset]
ConfigMaps ==
    {EmptyConfig}
        \cup {[EmptyConfig EXCEPT ![k] = v] :
                 <<k, v>> \in UNION {{k2} \X RawValues(OptionOfKey(k2)) : k2 \in ConfigKeys}}
        \cup {[k \in ConfigKeys |-> CHOOSE v \in RawValues(OptionOfKey(k)) : TRUE]}

\* WriterOptions objects: nothing set, one member set, or every member set.
NoOptions == [o \in OptionNames |-> Unset]
OptionObjects ==
    {NoOptions}
        \cup {[NoOptions EXCEPT ![o] = ExplicitValue(o)] : o \in OptionNames}
        \cup {[o \in OptionNames |-> ExplicitValue(o)]}

InitConfig ==
    /\ schema_ = Row(<<"a">>, <<Scalar>>)
    /\ InitFields
    /\ options \in OptionObjects
    /\ session \in ConfigMaps
    /\ connectorConfig \in ConfigMaps
    /\ configured = FALSE

NextConfig == ProcessConfigs

SpecConfig == InitConfig /\ [][NextConfig]_vars

-----------------------------------------------------------------------------
\* Helpers of the properties.
RECURSIVE SumSeq(_)
SumSeq(q) == IF q = <<>> THEN 0 ELSE Head(q) + SumSeq(Tail(q))

Range(q) == {q[i] : i \in DOMAIN q}
TableRows == [i \in DOMAIN tables |-> tables[i].table.rows]
\* Batch ids of the fragments in column c of the i-th table.
TableIds(i, c) == {f[1] : f \in Range(tables[i].table.cols[c])}
\* Rows carried by the fragments of the first column of the i-th table.
TableFragmentRows ==
    [i \in DOMAIN tables |->
        SumSeq([k \in DOMAIN tables[i].table.cols[1] |->
                   tables[i].table.cols[1][k][2]])]
\* A column's fragments as <<batch id, rows>>, without the column they are of.
Untagged(col) == [k \in DOMAIN col |-> <<col[k][1], col[k][2]>>]
StagedIds == UNION {{f[1] : f \in Range(stagingChunks[c])} : c \in DOMAIN stagingChunks}

\* The first close() of a writer on which no call failed has just returned.
CleanClose ==
    /\ last.op = "close" /\ last.outcome = "ok"
    /\ last.preCloses = 0 /\ failures = 0 /\ arrowContext

\* C1: after writes and flushes without failure, followed by close(), the
\* row counts of the tables handed to the encoder add up to the rows of
\* the batches written, and no fragment and no row is left staged.
C1_RowsConserved ==
    CleanClose =>
        /\ SumSeq(TableRows) = rowsWritten
        /\ stagingRows = 0
        /\ \A c \in DOMAIN stagingChunks : stagingChunks[c] = <<>>

\* C1 witness: a clean close after two batches with rows that went to two tables.
C1_Witness ==
    CleanClose /\ Len(tables) = 2 /\ rowsWritten > RowsInRowGroup

C3_FlushBeforeStage ==
    (last.op = "write" /\ last.outcome = "ok") =>
        /\ ~last.should =>
             /\ last.steps = <<>>
             /\ stagingRows = last.preRows + last.rows
             /\ stagingBytes = last.preBytes + last.bytes
        /\ last.should =>
             /\ stagingRows = last.rows
             /\ stagingBytes = last.bytes

\* C4: after abort(), every write, flush or close is rejected with an error
\* or does nothing, and nothing more (no footer either) reaches the
\* destination.
C4_AfterAbortRejected ==
    (~arrowContext /\ last.op \in {"write", "flush", "close"}) =>
        /\ last.outcome \in {"error", "ok"}
        /\ last.steps = <<>>
        /\ Len(dest) = destAtAbort

\* C5: abort() delivers nothing to the destination (no staging flush, no
\* encoder close, no sink flush) and drops the encoder handle, the staged
\* fragments, the counters and the buffered bytes.
C5_AbortDiscards ==
    last.op = "abort" =>
        /\ Len(dest) = last.preDest
        /\ Len(tables) = last.preTables
        /\ last.steps = <<>>
        /\ ~writer /\ ~arrowContext
        /\ stagingChunks = <<>> /\ stagingRows = 0 /\ stagingBytes = 0
        /\ buffer = <<>> /\ sink = "null"

\* C5 witness: abort() ran on an open writer with an open encoder, staged
\* rows and bytes in the sink's buffer.
C5_Witness ==
    /\ last.op = "abort" /\ last.preSink = "open" /\ last.preCloses = 0
    /\ last.preRows > 0 /\ last.preBuffer > 0 /\ last.preWriter

\* C6: close() on an open writer does, in this order, the final flush of the
\* staged rows, the encoder close that writes the footer, and the sink close;
\* afterwards no rows are staged and no bytes are buffered.
C6_CloseOrder ==
    (last.op = "close" /\ last.outcome = "ok" /\ last.preSink = "open") =>
        /\ last.steps =
             (IF last.preRows = 0 THEN <<>>
              ELSE (IF last.preWriter THEN <<>> ELSE <<"EncoderOpen">>)
                   \o <<"WriteTable", "SinkFlush">>)
             \o <<"EncoderClose", "SinkFlush", "SinkClose">>
        /\ stagingRows = 0
        /\ stagingChunks = <<>>
        /\ buffer = <<>>

\* C7: close() on a writer that was never aborted and never got a row still
\* puts the footer on the destination, before the destination is closed.
C7_FooterOnEmptyClose ==
    (/\ last.op = "close" /\ last.outcome = "ok" /\ last.preSink = "open"
     /\ rowsWritten = 0 /\ arrowContext) =>
        /\ \E i \in DOMAIN dest : dest[i] = FooterBytes[1]
        /\ \E i \in DOMAIN last.steps : \E j \in DOMAIN last.steps :
             i < j /\ last.steps[i] = "EncoderClose" /\ last.steps[j] = "SinkClose"

\* C8: after close() returned, a write(batch) is rejected, stages nothing
\* and opens no encoder.
C8_ClosedTerminal ==
    (last.op = "write" /\ last.preCloses > 0 /\ arrowContext) =>
        /\ last.outcome = "error"
        /\ stagingRows = last.preRows
        /\ stagingBytes = last.preBytes
        /\ \A c \in DOMAIN stagingChunks : stagingChunks[c] = <<>>
        /\ ~writer

\* Some struct of the type tree, at any depth and under any container, has an
\* empty field name or two fields of one name.
RECURSIVE HasBadStruct(_)
HasBadStruct(t) ==
    \/ /\ t.kind = "row"
       /\ \/ \E i \in DOMAIN t.names : t.names[i] = ""
          \/ \E i \in DOMAIN t.names : \E j \in DOMAIN t.names :
                 i # j /\ t.names[i] = t.names[j]
    \/ \E i \in DOMAIN t.children : HasBadStruct(t.children[i])

\* C9: construction fails, before any batch is accepted and before any byte
\* is buffered or delivered, exactly when the logical schema holds, at any
\* depth, a struct with an empty or a repeated field name.
C9_ConstructionRejects ==
    phase # "new" =>
        /\ phase = "ConfigError" <=> HasBadStruct(schema_)
        /\ phase = "ConfigError" => nextBatch = 1 /\ buffer = <<>> /\ dest = <<>>

\* The logical type an Arrow type stands for: kinds and struct field names.
RECURSIVE LogicalOf(_)
LogicalOf(t) ==
    CASE t.kind = "struct" ->
           Row([i \in DOMAIN t.fields |-> t.fields[i].name],
               [i \in DOMAIN t.fields |-> LogicalOf(t.fields[i].type)])
      [] t.kind = "list" -> Array(LogicalOf(t.fields[1].type))
      [] t.kind = "map" ->
           Map(LogicalOf(t.fields[1].type), LogicalOf(t.fields[2].type))
      [] OTHER -> Scalar

\* The nesting shape and leaf types of an Arrow type, all names dropped.
RECURSIVE ShapeOf(_)
ShapeOf(t) ==
    [kind |-> t.kind,
     fields |-> [i \in DOMAIN t.fields |-> ShapeOf(t.fields[i].type)]]

\* C10: the reconciled schema carries, at every struct at every depth, the
\* logical schema's field names in the same positions, and keeps the
\* converted schema's nesting shape and leaf types.
C10_ReconciledNames ==
    arrowSchema # NullSchema =>
        /\ LogicalOf(arrowSchema) = schema_
        /\ ShapeOf(arrowSchema) = ShapeOf(exportToArrow(schema_, last.scheme))

-----------------------------------------------------------------------------
\* C11: a write() whose batch type differs from the writer's schema (field
\* order, field names or nested types) fails at that call and leaves the staged
\* fragments, both counters, the canonical schema, the encoder handle and the
\* sink's buffer and delivered bytes as they were.
C11_MismatchRejected ==
    [][(last'.op = "write" /\ ~last'.typeOk)
         => /\ last'.outcome = "error"
            /\ last'.steps = <<>>
            /\ UNCHANGED <<stagingChunks, stagingRows, stagingBytes, arrowSchema,
                           writer, sink, buffer, bytesFlushed, dest, tables>>]_vars

\* C11 witness: a batch of another type was just refused while rows were
\* staged past the flush threshold and the encoder was open.
C11_Witness ==
    /\ last.op = "write" /\ ~last.typeOk /\ last.outcome = "error"
    /\ last.preWriter /\ writer
    /\ stagingRows >= RowsInRowGroup
    /\ arrowSchema # NullSchema

\* C12: newRowGroup(n) without an encoder handle (before the first flush that
\* found staged rows, after close) fails with an error raised to the caller;
\* with the encoder open it starts a row group in the encoder and leaves the
\* staged rows and bytes as they were.
C12_NewRowGroupChecked ==
    last.op = "newRowGroup" =>
        IF last.preWriter
        THEN /\ last.outcome = "ok"
             /\ last.steps = <<"NewRowGroup">>
             /\ stagingRows = last.preRows
             /\ stagingBytes = last.preBytes
        ELSE last.outcome = "error"

\* C13: as long as no sink call failed, the bytes delivered to the destination
\* followed by the buffered bytes are all written bytes in call order, and
\* Tell() is their number; Write delivers nothing; Flush delivers the whole
\* buffer in one destination write and leaves the buffer empty.
C13_SinkBytesInOrder ==
    failures = 0 =>
        /\ dest \o buffer = sinkWritten
        /\ Tell(WriterState) = Len(sinkWritten)
        /\ last.op = "sinkWrite" =>
              /\ Len(dest) = last.preDest
              /\ last.steps = <<>>
              /\ Len(buffer) = last.preBuffer + last.rows
        /\ last.op = "sinkFlush" =>
              /\ last.steps = <<"SinkFlush">>
              /\ Len(dest) = last.preDest + last.preBuffer
              /\ buffer = <<>>

\* C13 witness: a second flush has just delivered two buffered bytes, written
\* by two calls, after an earlier flush had delivered one.
C13_Witness ==
    /\ failures = 0
    /\ last.op = "sinkFlush" /\ last.preBuffer = 2 /\ last.preDest = 1
    /\ sinkWritten = <<"y", "x", "y">>
    /\ dest = sinkWritten

\* Batch ids of a column's fragments, in the column's order.
IdsOf(col) == [k \in DOMAIN col |-> col[k][1]]
\* A sequence of batch ids is in the order the batches were written.
InWriteOrder(ids) == \A k \in DOMAIN ids : \A l \in DOMAIN ids : k < l => ids[k] < ids[l]
\* Column c of cols holds fragments exported for column c only.
OwnColumn(cols, c) == \A k \in DOMAIN cols[c] : cols[c][k][3] = c

\* C14: tables reach the encoder in the order their batches were staged: a
\* batch written earlier is in an earlier table, or in the same table with its
\* fragment first in every column; what is still staged comes after every
\* table; each table has the schema's columns in the schema's order.
C14_StagedOrderKept ==
    /\ \A i \in DOMAIN tables :
         LET cols == tables[i].table.cols
         IN  /\ DOMAIN cols = 1..NumColumns
             /\ \A c \in DOMAIN cols :
                  /\ OwnColumn(cols, c)
                  /\ InWriteOrder(IdsOf(cols[c]))
                  /\ \A a \in TableIds(i, c) : \A b \in StagedIds : a < b
    /\ \A i \in DOMAIN tables : \A j \in DOMAIN tables :
         i < j => \A c \in 1..NumColumns : \A d \in 1..NumColumns :
                    \A a \in TableIds(i, c) : \A b \in TableIds(j, d) : a < b
    /\ \A c \in DOMAIN stagingChunks :
         /\ OwnColumn(stagingChunks, c)
         /\ InWriteOrder(IdsOf(stagingChunks[c]))

\* C14 witness: one table holds the fragments of batch 1 and then batch 2 in
\* both of its columns.
C14_Witness ==
    /\ failures = 0
    /\ Len(tables) = 1
    /\ NumColumns = 2
    /\ \A c \in 1..NumColumns : IdsOf(tables[1].table.cols[c]) = <<1, 2>>

\* Rows of the last fragment of a column, 0 for a column without fragments.
LastFragmentRows(col) == IF col = <<>> THEN 0 ELSE col[Len(col)][2]

C16_RequestsStagedRows ==
    \A i \in DOMAIN tables : tables[i].chunkSize = tables[i].table.rows

\* C17: a flush() or close() in which the encoder write or the sink flush
\* failed leaves staging entirely as before the call or entirely cleared:
\* never emptied fragment sequences together with a non-zero counter.
C17_FlushAllOrNothing ==
    (last.op \in {"flush", "close", "write"} /\ last.outcome = "error"
        /\ arrowContext /\ stagingChunks # <<>>) =>
        \/ stagingRows = 0 /\ stagingBytes = 0
        \/ \E c \in DOMAIN stagingChunks : stagingChunks[c] # <<>>

\* C18: the encoder handle is absent until the first flush that finds staged
\* rows and exists only once the canonical schema does; a flush() that finds
\* no staged rows creates no encoder, hands over no table and neither writes
\* to nor flushes the sink.
C18_LazyEncoder ==
    /\ writer => arrowSchema # NullSchema
    /\ writer => tables # <<>>
    /\ (writer /\ ~last.preWriter) => (last.preRows > 0 /\ "EncoderOpen" \in Range(last.steps))
    /\ (last.op = "flush" /\ last.preRows = 0 /\ last.outcome \notin CrashSignals) =>
         /\ last.outcome = "ok"
         /\ last.steps = <<>>
         /\ writer = last.preWriter
         /\ Len(tables) = last.preTables
         /\ Len(buffer) = last.preBuffer
         /\ Len(dest) = last.preDest

\* C18 witness: a flush() found no staged rows while the encoder did not exist
\* although the canonical schema did and bytes were staged.
C18_Witness ==
    /\ last.op = "flush" /\ last.outcome = "ok" /\ last.preRows = 0
    /\ arrowSchema # NullSchema /\ stagingBytes > 0
    /\ ~writer

\* The last n elements of a sequence.
Suffix(q, n) == SubSeq(q, Len(q) - n + 1, Len(q))

\* C19: after a successful flush that found staged rows (called directly or
\* from write before it stages the batch) the sink's buffer is empty and the
\* bytes the encoder produced for the row group are at the destination.
C19_FlushedToDestination ==
    (/\ last.op \in {"flush", "write"}
     /\ last.outcome = "ok"
     /\ last.preRows > 0
     /\ last.op = "write" => last.should) =>
        /\ buffer = <<>>
        /\ bytesFlushed = Len(dest)
        /\ Len(dest) >= last.preDest + last.preBuffer + Len(RowGroupBytes)
        /\ Suffix(dest, Len(RowGroupBytes)) = RowGroupBytes
        /\ last.op = "write" => stagingRows = last.rows

\* C19 witness: a write found the row target reached, flushed through the
\* encoder opened earlier and then staged its batch.
C19_Witness ==
    /\ last.op = "write" /\ last.outcome = "ok" /\ last.should
    /\ last.preRows > 0 /\ last.preWriter
    /\ buffer = <<>> /\ Len(dest) > last.preDest
    /\ stagingRows > 0

\* What the stated order gives for option o: the explicit option, else the
\* session property under the option's session key, else the connector
\* property under its connector key, else nothing (the built-in default).
Layered(o) ==
    IF options[o] # Unset THEN options[o]
    ELSE IF Getter(o, session, SessionKeyOf(o)) # Unset
         THEN Getter(o, session, SessionKeyOf(o))
         ELSE Getter(o, connectorConfig, ConnectorKeyOf(o))

\* C20: processConfigs resolves each of timestamp unit, dictionary enablement,
\* dictionary page size limit, data page version, data page size, write batch
\* size and creator string to the explicit option if set, else the session
\* property, else the connector property, else leaves it to the default; an
\* explicitly set option is never overwritten.
C20_ResolutionOrder ==
    [][(~configured /\ configured' /\ last'.outcome = "ok") =>
         \A o \in LayeredOptions : options'[o] = Layered(o)]_vars

\* Rows carried by the fragments of a column.
ColumnRows(col) == SumSeq([k \in DOMAIN col |-> col[k][2]])

\* C21: after every write, flush or close that returned on a writer that was
\* not aborted, all staged columns hold the same number of fragments and
\* stagingRows is the sum of the fragments' rows in each column.
C21_StagingConsistent ==
    (arrowContext /\ last.op \in {"write", "flush", "close"}
        /\ last.outcome = "ok") =>
        \A c \in DOMAIN stagingChunks :
            /\ Len(stagingChunks[c]) = Len(stagingChunks[1])
            /\ stagingRows = ColumnRows(stagingChunks[c])

\* C22: after every flush() that returned successfully every staged column is
\* empty and stagingBytes is 0, also when only zero-row batches were staged.
C22_FlushEmptiesStaging ==
    (arrowContext /\ last.op = "flush" /\ last.outcome = "ok") =>
        /\ \A c \in DOMAIN stagingChunks : stagingChunks[c] = <<>>
        /\ stagingBytes = 0

=============================================================================
